---- MODULE Spec2Model ----
(***************************************************************************)
(* A model of git_tree_go's root resolution, path abbreviation, path       *)
(* algebra and variable compression ("zowee") engine.                      *)
(*                                                                         *)
(* Go strings are modelled as sequences of one-character strings, so that  *)
(* prefix tests, splitting, sorting (byte order) and the formatting of     *)
(* `export NAME=VALUE` lines are computed character by character, as the   *)
(* Go code computes them.                                                  *)
(***************************************************************************)
EXTENDS Integers, Sequences, FiniteSets, TLC

(***************************************************************************)
(* Characters and the Go string library                                    *)
(***************************************************************************)

Lower == <<"a", "b", "c", "d", "e", "f", "g", "h", "i", "j", "k", "l", "m",
           "n", "o", "p", "q", "r", "s", "t", "u", "v", "w", "x", "y", "z">>

Upper == <<"A", "B", "C", "D", "E", "F", "G", "H", "I", "J", "K", "L", "M",
           "N", "O", "P", "Q", "R", "S", "T", "U", "V", "W", "X", "Y", "Z">>

Digit == <<"0", "1", "2", "3", "4", "5", "6", "7", "8", "9">>

IndexOf(seq, c) == CHOOSE i \in 1..Len(seq) : seq[i] = c

IsLower(c) == \E i \in 1..Len(Lower) : Lower[i] = c

IsUpper(c) == \E i \in 1..Len(Upper) : Upper[i] = c

IsDigit(c) == \E i \in 1..Len(Digit) : Digit[i] = c

IsLetter(c) == IsLower(c) \/ IsUpper(c)

\* The byte value of a character (ASCII), which is what Go compares.
Ord(c) ==
  IF IsLower(c) THEN 96 + IndexOf(Lower, c)
  ELSE IF IsUpper(c) THEN 64 + IndexOf(Upper, c)
  ELSE IF IsDigit(c) THEN 47 + IndexOf(Digit, c)
  ELSE CASE c = " " -> 32
         [] c = "$" -> 36
         [] c = "'" -> 39
         [] c = "+" -> 43
         [] c = "-" -> 45
         [] c = "." -> 46
         [] c = "/" -> 47
         [] c = "=" -> 61
         [] c = "_" -> 95

\* regexp class \w and its complement [^a-zA-Z0-9_]
IsWordChar(c) == IsLetter(c) \/ IsDigit(c) \/ c = "_"

Min(a, b) == IF a < b THEN a ELSE b

\* Go's < on strings: byte-wise lexicographic order
Less(s, t) ==
  \/ \E i \in 1..Min(Len(s), Len(t)) :
       /\ SubSeq(s, 1, i - 1) = SubSeq(t, 1, i - 1)
       /\ Ord(s[i]) < Ord(t[i])
  \/ Len(s) < Len(t) /\ SubSeq(t, 1, Len(s)) = s

RemoveAt(xs, i) == SubSeq(xs, 1, i - 1) \o SubSeq(xs, i + 1, Len(xs))

\* sort.Strings: ascending byte order (equal strings are indistinguishable)
RECURSIVE SortStrings(_)
SortStrings(xs) ==
  IF Len(xs) = 0 THEN <<>>
  ELSE LET i == CHOOSE k \in 1..Len(xs) :
                  \A j \in 1..Len(xs) : ~Less(xs[j], xs[k])
       IN <<xs[i]>> \o SortStrings(RemoveAt(xs, i))

HasPrefix(s, p) == Len(p) <= Len(s) /\ SubSeq(s, 1, Len(p)) = p

TrimPrefix(s, p) == IF HasPrefix(s, p) THEN SubSeq(s, Len(p) + 1, Len(s)) ELSE s

\* strings.Split(s, sep) for a one-character separator
RECURSIVE Split(_, _)
Split(s, sep) ==
  IF \A i \in 1..Len(s) : s[i] # sep THEN <<s>>
  ELSE LET i == CHOOSE k \in 1..Len(s) :
                  s[k] = sep /\ \A j \in 1..(k - 1) : s[j] # sep
       IN <<SubSeq(s, 1, i - 1)>> \o Split(SubSeq(s, i + 1, Len(s)), sep)

\* strings.Join(parts, sep) for a one-character separator
RECURSIVE Join(_, _)
Join(parts, sep) ==
  IF Len(parts) = 0 THEN <<>>
  ELSE IF Len(parts) = 1 THEN parts[1]
  ELSE parts[1] \o <<sep>> \o Join(Tail(parts), sep)

\* strings.ReplaceAll(s, old, new) for one-character old and new
ReplaceAll(s, old, new) == [i \in 1..Len(s) |-> IF s[i] = old THEN new ELSE s[i]]

\* strings.Trim(s, cutset): strip leading and trailing characters of cutset
RECURSIVE TrimLeft(_, _)
TrimLeft(s, cutset) ==
  IF Len(s) > 0 /\ s[1] \in cutset THEN TrimLeft(Tail(s), cutset) ELSE s

RECURSIVE TrimRight(_, _)
TrimRight(s, cutset) ==
  IF Len(s) > 0 /\ s[Len(s)] \in cutset
  THEN TrimRight(SubSeq(s, 1, Len(s) - 1), cutset) ELSE s

Trim(s, cutset) == TrimRight(TrimLeft(s, cutset), cutset)

\* strings.Fields(s): the maximal runs of non-space characters
RECURSIVE DropEmpty(_)
DropEmpty(parts) ==
  IF Len(parts) = 0 THEN <<>>
  ELSE IF parts[1] = <<>> THEN DropEmpty(Tail(parts))
  ELSE <<parts[1]>> \o DropEmpty(Tail(parts))

Fields(s) == DropEmpty(Split(s, " "))

\* contains(slice, item)
contains(slice, item) == \E i \in 1..Len(slice) : slice[i] = item

(***************************************************************************)
(* path/filepath (Unix)                                                    *)
(***************************************************************************)

Dot == <<".">>

DotDot == <<".", ".">>

Slash == <<"/">>

\* The component stack of filepath.Clean: drop "" and ".", pop on "..".
RECURSIVE CleanParts(_, _, _)
CleanParts(parts, acc, rooted) ==
  IF Len(parts) = 0 THEN acc
  ELSE LET p == parts[1]
           rest == Tail(parts)
       IN IF p = <<>> \/ p = Dot THEN CleanParts(rest, acc, rooted)
          ELSE IF p = DotDot
               THEN IF Len(acc) > 0 /\ acc[Len(acc)] # DotDot
                    THEN CleanParts(rest, SubSeq(acc, 1, Len(acc) - 1), rooted)
                    ELSE IF rooted THEN CleanParts(rest, acc, rooted)
                    ELSE CleanParts(rest, Append(acc, p), rooted)
               ELSE CleanParts(rest, Append(acc, p), rooted)

Clean(path) ==
  IF path = <<>> THEN Dot
  ELSE LET rooted == path[1] = "/"
           body == Join(CleanParts(Split(path, "/"), <<>>, rooted), "/")
       IN IF rooted THEN Slash \o body
          ELSE IF body = <<>> THEN Dot ELSE body

\* filepath.Base
Base(path) ==
  IF path = <<>> THEN Dot
  ELSE LET stripped == TrimRight(path, {"/"})
       IN IF stripped = <<>> THEN Slash
          ELSE LET parts == Split(stripped, "/") IN parts[Len(parts)]

\* filepath.Dir
Dir(path) ==
  LET slashes == {i \in 1..Len(path) : path[i] = "/"}
      last == IF slashes = {} THEN 0
              ELSE CHOOSE i \in slashes : \A j \in slashes : j <= i
  IN Clean(SubSeq(path, 1, last))

(***************************************************************************)
(* State                                                                   *)
(***************************************************************************)

VARIABLES
  \* ZoweeOptimizer and one Optimize call
  initialVars,      \* the table NewZoweeOptimizer was given (display key -> paths)
  definedVars,      \* zo.definedVars: name -> source path
  intermediateVars, \* zo.intermediateVars: prefix -> rendered line
  paths,            \* Optimize's argument paths
  initialRoots,     \* Optimize's argument initialRoots
  prefixesLeft,     \* the entries of sortedPrefixes the loop has not visited yet
  next,             \* index into paths of the terminal loop
  output,           \* Optimize's local output
  result,           \* the list Optimize returned
  pc,               \* position of the caller: "new", "intermediate", "terminal", "done"
  run,              \* 1 for the first optimizer built, 2 for the second
  previous,         \* the list returned by the first optimizer (history)
  sourceOf,         \* history: <<line, source path, class>> for every line rendered
  \* one call of a path function (CommonPrefix, Roots, TrimToLevel)
  algPaths,         \* the argument paths
  algLevel,         \* the argument level
  algAllow,         \* the argument allowRootMatch
  algCall,          \* the function that was called, "none" before the call
  algOut,           \* what the call did: [exit, value]
  \* the process environment and a GitTreeWalker
  env,              \* os.Getenv: variable name -> value (absent: unset)
  defaultRoots,     \* Config.DefaultRoots as NewConfig loads it
  args,             \* the arguments NewGitTreeWalker was called with
  walker,           \* the *GitTreeWalker it returned: [nil, DisplayRoots, RootMap, Serial]
  walkErr,          \* the error it returned: "nil" or its kind
  abbrevDir,        \* the argument of the last AbbreviatePath call
  abbrevOut,        \* what that call returned
  wpc,              \* "start", "ready" (a walker was returned), "failed"
  \* the directory tree and one run of FindAndProcessRepos
  fs,               \* directory -> [ignore, git]: has a .ignore entry; .git is "none", "dir", "file"
  findPc,           \* "idle", "finding", "done"
  rootArgs,         \* the sorted keys of RootMap still to visit
  rootArg,          \* the key being visited
  rootPathsLeft,    \* its paths still to visit
  stack,            \* the pending calls of findGitReposRecursive, next one first
  visited,          \* the visited map
  yielded,          \* the calls of the callback so far: <<dir, rootArg>>
  \* a ThreadPoolManager, its workers and the goroutine that uses it
  workerCount,      \* tp.workerCount
  started,          \* tp.started
  workQueue,        \* tp.workQueue: the buffered channel
  workers,          \* workerID -> [pc, task]: "receive", "taskFunc", "exited"
  mainPc,           \* where the caller is
  signalsLeft,      \* the nils Shutdown has still to send
  added,            \* the arguments of the AddTask calls so far
  shutdownCalled,   \* Shutdown or WaitForCompletion has been called
  sent,             \* history: everything sent to workQueue, in order
  runs,             \* history: <<task, workerID>> for every call of taskFunc
  finished,         \* history: the tasks whose taskFunc has returned
  \* one call of generateVarName on an optimizer whose table is definedVars
  namePath,         \* the argument path
  nameOut,          \* the name it returned
  namePc            \* "idle", "call", "returned"

optVars == <<initialVars, definedVars, intermediateVars, paths, initialRoots,
             prefixesLeft, next, output, result, pc, run, previous, sourceOf>>

algVars == <<algPaths, algLevel, algAllow, algCall, algOut>>

walkVars == <<env, defaultRoots, args, walker, walkErr, abbrevDir, abbrevOut, wpc>>

findVars == <<fs, findPc, rootArgs, rootArg, rootPathsLeft, stack, visited, yielded>>

poolVars == <<workerCount, started, workQueue, workers, mainPc, signalsLeft, added,
              shutdownCalled, sent, runs, finished>>

nameVars == <<namePath, nameOut, namePc>>

vars == <<optVars, algVars, walkVars, findVars, poolVars, nameVars>>

\* What an action of one component leaves alone
notOpt == <<algVars, walkVars, findVars, poolVars, nameVars>>

notAlg == <<optVars, walkVars, findVars, poolVars, nameVars>>

notWalk == <<optVars, algVars, findVars, poolVars, nameVars>>

notFind == <<optVars, algVars, walkVars, poolVars, nameVars>>

notPool == <<optVars, algVars, walkVars, findVars, nameVars>>

notName == <<algVars, walkVars, findVars, poolVars>>

(***************************************************************************)
(* Maps                                                                    *)
(***************************************************************************)

EmptyMap == <<>>

\* Go's m[k] on a map of strings: the zero value "" when k is absent
Lookup(m, k) == IF k \in DOMAIN m THEN m[k] ELSE <<>>

\* m[k] = v
Put(m, k, v) == [x \in (DOMAIN m) \cup {k} |-> IF x = k THEN v ELSE m[x]]

(***************************************************************************)
(* ZoweeOptimizer (internal/config.go)                                     *)
(***************************************************************************)

Export == <<"e", "x", "p", "o", "r", "t", " ">>

\* fmt.Sprintf("export %s=%s", varName, value)
ExportLine(varName, value) == Export \o varName \o <<"=">> \o value

\* NewZoweeOptimizer: the definedVars a table can seed.  Two keys that trim to
\* the same name overwrite each other in map iteration order, so the result
\* is one of the functions that pick, for every name, one of its keys.
SeedKeys(table) == {k \in DOMAIN table : Len(table[k]) > 0}

SeedName(varRef) == Trim(varRef, {"'", "$"})

NewZoweeOptimizer(table) ==
  LET names == {SeedName(k) : k \in SeedKeys(table)}
      keysOf(n) == {k \in SeedKeys(table) : SeedName(k) = n}
  IN {[n \in names |-> table[pick[n]][1]] :
        pick \in {f \in [names -> SeedKeys(table)] : \A n \in names : f[n] \in keysOf(n)}}

\* generateVarName
WWW == <<"w", "w", "w">>

Sanitize(name) == [i \in 1..Len(name) |-> IF IsWordChar(name[i]) THEN name[i] ELSE "_"]

generateVarName(defined, path) ==
  LET basename == Base(path)
      parts == Split(basename, ".")
      first == IF parts[1] = WWW /\ Len(parts) > 1 THEN parts[2] ELSE parts[1]
      name == ReplaceAll(first, "-", "_")
      collides == name \in DOMAIN defined /\ defined[name] # path
      named == IF collides THEN Base(Dir(path)) \o <<"_">> \o name ELSE name
      clean == Sanitize(named)
  IN IF basename = <<>> THEN <<>>
     ELSE IF Len(clean) > 0 /\ IsDigit(clean[1]) THEN <<"_">> \o clean
     ELSE clean

\* findBestSubstitution without the comparison of lengths: any matching entry
findBestSubstitution_AnyMatch(defined, path) ==
  {[var |-> v, path |-> defined[v]] :
     v \in {m \in DOMAIN defined : HasPrefix(path, defined[m] \o Slash) /\ Len(defined[m]) > 0}}

\* findBestSubstitution: the bindings the loop can end with.  It keeps an
\* entry only when its path is strictly longer than the best so far, so the
\* winner is the first entry of maximal length that the map iteration meets:
\* any entry of maximal length among the matching ones.  {} stands for nil.
findBestSubstitution(defined, path) ==
  LET matching == {v \in DOMAIN defined :
                     HasPrefix(path, defined[v] \o Slash) /\ Len(defined[v]) > 0}
  IN {[var |-> v, path |-> defined[v]] :
        v \in {m \in matching : \A o \in matching : Len(defined[o]) <= Len(defined[m])}}

\* The value rendered from a substitution (Optimize 155-161,
\* defineIntermediateVars 260-266)
SubstitutedValue(best, path) ==
  <<"$">> \o best.var \o Slash \o TrimPrefix(path, best.path \o Slash)

Values(defined, path) ==
  IF findBestSubstitution(defined, path) = {} THEN {path}
  ELSE {SubstitutedValue(b, path) : b \in findBestSubstitution(defined, path)}

mapContainsValue(m, value) == \E k \in DOMAIN m : m[k] = value

hasParentInPaths(prefix, ps) == \E i \in 1..Len(ps) : Dir(prefix) = ps[i]

\* (a variant that finds no conflict)
hasConflictingDefined_Never(prefix, defined) == FALSE

hasConflictingDefined(prefix, defined) ==
  \E k \in DOMAIN defined : HasPrefix(prefix, defined[k]) \/ HasPrefix(defined[k], prefix)

\* uniqueStrings: first occurrences, in order
RECURSIVE uniqueStrings(_)
uniqueStrings(slice) ==
  IF Len(slice) = 0 THEN <<>>
  ELSE LET front == uniqueStrings(SubSeq(slice, 1, Len(slice) - 1))
           s == slice[Len(slice)]
       IN IF contains(front, s) THEN front ELSE Append(front, s)

\* defineIntermediateVars 222-230: the prefixes of one path, strings.Join(parts[:i], "/")
PrefixesOf(path) ==
  LET parts == Split(path, "/")
  IN {Join(SubSeq(parts, 1, i), "/") : i \in 1..(Len(parts) - 1)}

\* prefixes[prefix]: one count per element of paths (a repeated path counts again)
PrefixCount(ps, prefix) == Cardinality({i \in 1..Len(ps) : prefix \in PrefixesOf(ps[i])})

AllPrefixes(ps) == UNION {PrefixesOf(ps[i]) : i \in 1..Len(ps)}

\* Optimize 167-182: the intermediate lines in sort.Strings order of their
\* paths, then the terminal lines, deduplicated.
RECURSIVE SetToSeq(_)
SetToSeq(S) ==
  IF S = {} THEN <<>>
  ELSE LET x == CHOOSE y \in S : TRUE IN <<x>> \o SetToSeq(S \ {x})

\* sort.Slice by length, as defineIntermediateVars sorts its prefixes
RECURSIVE SortByLength(_)
SortByLength(xs) ==
  IF Len(xs) = 0 THEN <<>>
  ELSE LET i == CHOOSE k \in 1..Len(xs) : \A j \in 1..Len(xs) : Len(xs[k]) <= Len(xs[j])
       IN <<xs[i]>> \o SortByLength(RemoveAt(xs, i))

\* (a variant that orders the intermediate lines by the length of their paths)
IntermediateLines_ByLength(inter) ==
  LET sorted == SortByLength(SortStrings(SetToSeq(DOMAIN inter)))
  IN [i \in 1..Len(sorted) |-> inter[sorted[i]]]

IntermediateLines(inter) ==
  LET sorted == SortStrings(SetToSeq(DOMAIN inter))
  IN [i \in 1..Len(sorted) |-> inter[sorted[i]]]

\* (a variant that returns the terminal lines before the intermediate ones)
AssembleResult_TerminalsFirst(inter, out) ==
  uniqueStrings(out \o IntermediateLines(inter))

AssembleResult(inter, out) == uniqueStrings(IntermediateLines(inter) \o out)

(***************************************************************************)
(* Inputs of the optimizer                                                 *)
(***************************************************************************)

MaxPaths == 3

PathA == <<"/", "a">>

PathB == <<"/", "b">>

PathAB == <<"/", "a", "/", "b">>

PathABC == <<"/", "a", "/", "b", "/", "c">>

PathABD == <<"/", "a", "/", "b", "/", "d">>

PathCAB == <<"/", "c", "/", "a", "/", "b">>

KeyW == <<"$", "w">>

KeyV == <<"$", "v">>

KeyA == <<"$", "a">>

OptPaths == {PathA, PathB, PathAB, PathABC, PathABD, PathCAB}

\* Every list of at most MaxPaths paths, repetitions included
PathSets == UNION {[1..n -> OptPaths] : n \in 0..MaxPaths}

\* Root tables as git-evars passes them (walker.RootMap): none, one root
\* whose name differs from its basename, one whose name is its basename
\* (with a second path), two roots on one directory, one root given as a
\* literal path (stored under the argument itself)
InitialTables ==
  { EmptyMap,
    [k \in {KeyW} |-> <<PathA>>],
    [k \in {KeyA} |-> <<PathA, PathB>>],
    [k \in {KeyW, KeyV} |-> <<PathA>>],
    [k \in {PathA} |-> <<PathA>>] }

\* initialRoots: no key, or the keys of the table in sort.Strings order
\* (the order does not matter to contains)
InitialRootLists(table) == {<<>>, SortStrings(SetToSeq(DOMAIN table))}

(***************************************************************************)
(* Actions of the optimizer                                                *)
(***************************************************************************)

\* The state after zo := NewZoweeOptimizer(table), for some table
InitOptimizer ==
  /\ initialVars \in InitialTables
  /\ definedVars \in NewZoweeOptimizer(initialVars)
  /\ intermediateVars = EmptyMap
  /\ paths = <<>>
  /\ initialRoots = <<>>
  /\ prefixesLeft = {}
  /\ next = 1
  /\ output = <<>>
  /\ result = <<>>
  /\ pc = "new"
  /\ run = 1
  /\ previous = <<>>
  /\ sourceOf = {}

\* Optimize is entered (136-140) and defineIntermediateVars has collected
\* its prefix counts (222-239)
OptimizeCall(ps, roots) ==
  /\ UNCHANGED notOpt
  /\ pc = "new"
  /\ run = 1
  /\ paths' = ps
  /\ initialRoots' = roots
  /\ output' = <<>>
  /\ prefixesLeft' = AllPrefixes(ps)
  /\ next' = 1
  /\ pc' = "intermediate"
  /\ UNCHANGED <<initialVars, definedVars, intermediateVars, result, run,
                 previous, sourceOf>>

\* (a variant for which one path below the prefix suffices)
isUseful_OnePathSuffices(prefix) ==
  /\ PrefixCount(paths, prefix) > 0
  /\ ~mapContainsValue(definedVars, prefix)
  /\ ~hasParentInPaths(prefix, paths)
  /\ ~hasConflictingDefined(prefix, definedVars)

\* One iteration of the loop over sortedPrefixes (241-272).  sort.Slice
\* orders by length only and its input comes from a map iteration, so the
\* next prefix is any unvisited one of minimal length.
isUseful(prefix) ==
  /\ PrefixCount(paths, prefix) > 1
  /\ ~mapContainsValue(definedVars, prefix)
  /\ ~hasParentInPaths(prefix, paths)
  /\ ~hasConflictingDefined(prefix, definedVars)

isNotAnInputPath(prefix) == ~contains(paths, prefix)

DefineIntermediateVar(prefix) ==
  /\ UNCHANGED notOpt
  /\ pc = "intermediate"
  /\ prefix \in prefixesLeft
  /\ \A o \in prefixesLeft : Len(prefix) <= Len(o)
  /\ prefixesLeft' = prefixesLeft \ {prefix}
  /\ LET varName == generateVarName(definedVars, prefix)
     IN IF /\ isUseful(prefix)
           /\ isNotAnInputPath(prefix)
           /\ varName # <<>>
           /\ varName \notin DOMAIN definedVars
        THEN \E value \in Values(definedVars, prefix) :
               /\ definedVars' = Put(definedVars, varName, prefix)
               /\ intermediateVars' =
                    Put(intermediateVars, prefix, ExportLine(varName, value))
               /\ sourceOf' = sourceOf \cup
                    {<<ExportLine(varName, value), prefix, "intermediate">>}
        ELSE UNCHANGED <<definedVars, intermediateVars, sourceOf>>
  /\ UNCHANGED <<initialVars, paths, initialRoots, next, output, result, pc,
                 run, previous>>

\* defineIntermediateVars returns; Optimize goes on to its loop over paths
IntermediateDone ==
  /\ UNCHANGED notOpt
  /\ pc = "intermediate"
  /\ prefixesLeft = {}
  /\ pc' = "terminal"
  /\ UNCHANGED <<initialVars, definedVars, intermediateVars, paths,
                 initialRoots, prefixesLeft, next, output, result, run,
                 previous, sourceOf>>

\* One iteration of Optimize's loop over paths (142-165)
isSuppliedRoot(varName, path) ==
  contains(initialRoots, <<"$">> \o varName) /\ Lookup(definedVars, varName) = path

OptimizeTerminal ==
  /\ UNCHANGED notOpt
  /\ pc = "terminal"
  /\ next <= Len(paths)
  /\ next' = next + 1
  /\ LET path == paths[next]
         varName == generateVarName(definedVars, path)
     IN IF varName = <<>> \/ isSuppliedRoot(varName, path)
        THEN UNCHANGED <<definedVars, output, sourceOf>>
        ELSE \E value \in Values(definedVars, path) :
               /\ output' = Append(output, ExportLine(varName, value))
               /\ definedVars' = Put(definedVars, varName, path)
               /\ sourceOf' = sourceOf \cup
                    {<<ExportLine(varName, value), path, "terminal">>}
  /\ UNCHANGED <<initialVars, intermediateVars, paths, initialRoots,
                 prefixesLeft, result, pc, run, previous>>

\* Optimize assembles and returns its result (167-182)
OptimizeReturn ==
  /\ UNCHANGED notOpt
  /\ pc = "terminal"
  /\ next > Len(paths)
  /\ result' = AssembleResult(intermediateVars, output)
  /\ pc' = "done"
  /\ UNCHANGED <<initialVars, definedVars, intermediateVars, paths,
                 initialRoots, prefixesLeft, next, output, run, previous,
                 sourceOf>>

(***************************************************************************)
(* Path functions: CommonPrefix, Roots, TrimToLevel                        *)
(***************************************************************************)

\* A call returned value v
Returns(v) == [exit |-> "none", value |-> v]

\* A call ended the process with os.Exit(1)
Exits == [exit |-> "exit", value |-> <<>>]

\* A call panicked (slice bounds out of range)
Panics == [exit |-> "panic", value |-> <<>>]

\* The loop `for i < len(first) && i < len(last) && first[i] == last[i]`
\* and first[:i]
CommonRun(first, last) ==
  LET n == Min(Len(first), Len(last))
      stops == {i \in 1..n : first[i] # last[i]}
      k == IF stops = {} THEN n
           ELSE (CHOOSE i \in stops : \A j \in stops : i <= j) - 1
  IN SubSeq(first, 1, k)

CommonPrefix(ps, allowRootMatch) ==
  IF Len(ps) = 0 THEN Returns(<<>>)
  ELSE IF \E i \in 1..Len(ps) : ~HasPrefix(ps[i], Slash) THEN Exits
  ELSE IF Len(ps) = 1
       THEN LET dir == Dir(ps[1])
            IN IF dir = Slash /\ ~allowRootMatch THEN Returns(<<>>)
               ELSE Returns(dir)
  ELSE LET sorted == SortStrings(ps)
           first == Split(sorted[1], "/")
           last == Split(sorted[Len(sorted)], "/")
           joined == Join(CommonRun(first, last), "/")
       IN IF joined = <<>> /\ allowRootMatch THEN Returns(Slash)
          ELSE Returns(joined)

\* One path of TrimToLevel: its non-empty components, cut to level of them
\* when it has that many, behind a leading slash
TrimPath(path, level) ==
  LET elements == DropEmpty(Split(path, "/"))
      kept == IF Len(elements) >= level THEN SubSeq(elements, 1, level)
              ELSE elements
  IN Slash \o Join(kept, "/")

\* TrimToLevel for a level >= 0 (a negative level panics at elements[:level])
TrimToLevel(ps, level) ==
  SortStrings(uniqueStrings([i \in 1..Len(ps) |-> TrimPath(ps[i], level)]))

\* The number of times the `for` loop of Roots calls TrimToLevel
RECURSIVE RootsRounds(_, _)
RootsRounds(ps, level) ==
  LET trimmed == TrimToLevel(ps, level)
  IN IF Len(trimmed) = 1 \/ level - 1 = 0 THEN 1
     ELSE 1 + RootsRounds(trimmed, level - 1)

\* (a variant of the loop that gives up after its first round)
RootsLoop_OneRound(ps, level) ==
  LET trimmed == TrimToLevel(ps, level)
  IN IF Len(trimmed) = 1 THEN {trimmed[1]} ELSE {}

\* The `for` loop of Roots: the value returned, or <<>> as a set when the
\* loop is left by break
RECURSIVE RootsLoop(_, _)
RootsLoop(ps, level) ==
  LET trimmed == TrimToLevel(ps, level)
  IN IF Len(trimmed) = 1 THEN {trimmed[1]}
     ELSE IF level - 1 = 0 THEN {}
     ELSE RootsLoop(trimmed, level - 1)

RootFallback(allowRootMatch) == IF allowRootMatch THEN Slash ELSE <<>>

Roots(ps, level, allowRootMatch) ==
  IF level <= 0 THEN Exits
  ELSE IF Len(ps) = 0 THEN Returns(RootFallback(allowRootMatch))
  ELSE IF Len(ps) = 1
       THEN LET root == Dir(ps[1])
            IN IF root = Slash THEN Returns(RootFallback(allowRootMatch))
               ELSE Returns(root)
  ELSE LET found == RootsLoop(ps, level)
       IN IF found = {} THEN Returns(RootFallback(allowRootMatch))
          ELSE Returns(CHOOSE r \in found : TRUE)

\* Inputs of the path functions
MaxAlgPaths == 3

MaxLevel == 3

PathADashB == <<"/", "a", "-", "b">>

PathRelative == <<"r", "/", "a">>

PathSub3 == <<"/", "r", "o", "o", "t", "/", "s", "u", "b", "1", "/", "s", "u", "b", "2", "/", "s", "u", "b", "3">>

PathSub4 == <<"/", "r", "o", "o", "t", "/", "s", "u", "b", "1", "/", "s", "u", "b", "2", "/", "s", "u", "b", "4">>

AlgPaths == {Slash, PathA, PathADashB, PathAB, PathB, PathRelative, PathSub3, PathSub4}

AlgPathLists == UNION {[1..n -> AlgPaths] : n \in 0..MaxAlgPaths}

Levels == (-1)..MaxLevel

\* No path function has been called
IdleAlgebra ==
  /\ algPaths = <<>>
  /\ algLevel = 1
  /\ algAllow = FALSE
  /\ algCall = "none"
  /\ algOut = Returns(<<>>)

\* The arguments of the one call
InitAlgebra ==
  /\ algPaths \in AlgPathLists
  /\ algLevel \in Levels
  /\ algAllow \in BOOLEAN
  /\ algCall = "none"
  /\ algOut = Returns(<<>>)

CallCommonPrefix ==
  /\ algCall = "none"
  /\ algCall' = "CommonPrefix"
  /\ algOut' = CommonPrefix(algPaths, algAllow)
  /\ UNCHANGED <<algPaths, algLevel, algAllow>>
  /\ UNCHANGED notAlg

CallRoots ==
  /\ algCall = "none"
  /\ algCall' = "Roots"
  /\ algOut' = Roots(algPaths, algLevel, algAllow)
  /\ UNCHANGED <<algPaths, algLevel, algAllow>>
  /\ UNCHANGED notAlg

CallTrimToLevel ==
  /\ algCall = "none"
  /\ algCall' = "TrimToLevel"
  /\ algOut' = IF algLevel < 0 THEN Panics
               ELSE Returns(TrimToLevel(algPaths, algLevel))
  /\ UNCHANGED <<algPaths, algLevel, algAllow>>
  /\ UNCHANGED notAlg

(***************************************************************************)
(* GitTreeWalker: root arguments, the root table, AbbreviatePath           *)
(***************************************************************************)

\* os.Getenv: the value, "" for a variable that is unset
Getenv(name) == IF name \in DOMAIN env THEN env[name] ELSE <<>>

\* os.Getwd
Cwd == <<"/", "h">>

\* filepath.Abs (Unix)
Abs(p) == IF HasPrefix(p, Slash) THEN Clean(p) ELSE Clean(Cwd \o Slash \o p)

\* [a-zA-Z_]\w*
IsIdent(s) ==
  /\ Len(s) > 0
  /\ IsLetter(s[1]) \/ s[1] = "_"
  /\ \A i \in 1..Len(s) : IsWordChar(s[i])

\* envVarPattern: ^(?:'\$[a-zA-Z_]\w*'|\$[a-zA-Z_]\w*)$
envVarPattern(arg) ==
  \/ Len(arg) >= 2 /\ arg[1] = "$" /\ IsIdent(Tail(arg))
  \/ /\ Len(arg) >= 4
     /\ arg[1] = "'" /\ arg[2] = "$" /\ arg[Len(arg)] = "'"
     /\ IsIdent(SubSeq(arg, 3, Len(arg) - 1))

\* varNamePattern: ^[a-zA-Z_]\w*$
varNamePattern(arg) == IsIdent(arg)

UndefinedError == "environment variable is undefined"

\* The path list stored for one argument (189-200)
AbsPaths(path) == LET fields == Fields(path) IN [i \in 1..Len(fields) |-> Abs(fields[i])]

StoreRoot(rootMap, displayName, path) ==
  IF path # <<>> THEN Put(rootMap, displayName, AbsPaths(path)) ELSE rootMap

\* (a variant that stores an implicit reference under the bare identifier)
processRootArg_ImplicitKeptBare(rootMap, arg) ==
  IF envVarPattern(arg)
  THEN LET varName == Trim(arg, {"'", "$"})
           envValue == Getenv(varName)
       IN IF envValue = <<>>
          THEN [err |-> UndefinedError, RootMap |-> rootMap]
          ELSE [err |-> "nil",
                RootMap |-> StoreRoot(rootMap, <<"$">> \o varName, envValue)]
  ELSE IF varNamePattern(arg) /\ Getenv(arg) # <<>>
       THEN [err |-> "nil", RootMap |-> StoreRoot(rootMap, arg, Getenv(arg))]
       ELSE [err |-> "nil", RootMap |-> StoreRoot(rootMap, arg, arg)]

\* processRootArg: the error returned and w.RootMap afterwards
processRootArg(rootMap, arg) ==
  IF envVarPattern(arg)
  THEN LET varName == Trim(arg, {"'", "$"})
           envValue == Getenv(varName)
       IN IF envValue = <<>>
          THEN [err |-> UndefinedError, RootMap |-> rootMap]
          ELSE [err |-> "nil",
                RootMap |-> StoreRoot(rootMap, <<"$">> \o varName, envValue)]
  ELSE IF varNamePattern(arg) /\ Getenv(arg) # <<>>
       THEN [err |-> "nil",
             RootMap |-> StoreRoot(rootMap, <<"$">> \o arg, Getenv(arg))]
       ELSE [err |-> "nil", RootMap |-> StoreRoot(rootMap, arg, arg)]

\* strings.Fields of every argument, appended in order (133-136)
RECURSIVE ExpandArgs(_)
ExpandArgs(processedArgs) ==
  IF Len(processedArgs) = 0 THEN <<>>
  ELSE Fields(processedArgs[1]) \o ExpandArgs(Tail(processedArgs))

\* The loop of determineRoots run to its end, the error of the last
\* argument returned
RECURSIVE ProcessAll_LastError(_, _)
ProcessAll_LastError(rootMap, expandedArgs) ==
  IF Len(expandedArgs) = 0 THEN [err |-> "nil", RootMap |-> rootMap]
  ELSE LET one == processRootArg(rootMap, expandedArgs[1])
       IN IF Len(expandedArgs) = 1 THEN one
          ELSE ProcessAll_LastError(one.RootMap, Tail(expandedArgs))

\* The loop of determineRoots (140-144): the first error ends it
RECURSIVE ProcessAll(_, _)
ProcessAll(rootMap, expandedArgs) ==
  IF Len(expandedArgs) = 0 THEN [err |-> "nil", RootMap |-> rootMap]
  ELSE LET one == processRootArg(rootMap, expandedArgs[1])
       IN IF one.err # "nil" THEN one
          ELSE ProcessAll(one.RootMap, Tail(expandedArgs))

\* The arguments determineRoots works on (127-136)
ExpandedArgs(as) == ExpandArgs(IF Len(as) = 0 THEN defaultRoots ELSE as)

\* determineRoots: the error returned and the walker afterwards
determineRoots(w, as) ==
  LET expandedArgs == ExpandedArgs(as)
      done == ProcessAll(w.RootMap, expandedArgs)
  IN [err |-> done.err,
      walker |-> [w EXCEPT !.DisplayRoots = expandedArgs, !.RootMap = done.RootMap]]

\* The nil *GitTreeWalker
NilWalker == [nil |-> TRUE, DisplayRoots |-> <<>>, RootMap |-> EmptyMap, Serial |-> FALSE]

\* NewGitTreeWalker: the pair (walker, error) it returns
NewGitTreeWalker(as, serial) ==
  LET w == [nil |-> FALSE, DisplayRoots |-> <<>>, RootMap |-> EmptyMap, Serial |-> serial]
      determined == determineRoots(w, as)
  IN IF determined.err # "nil"
     THEN [walker |-> NilWalker, err |-> determined.err]
     ELSE [walker |-> determined.walker, err |-> "nil"]

\* strings.Replace(s, old, new, 1) for a non-empty old
ReplaceFirst(s, old, new) ==
  LET at == {i \in 1..(Len(s) - Len(old) + 1) : SubSeq(s, i, i + Len(old) - 1) = old}
  IN IF at = {} THEN s
     ELSE LET i == CHOOSE k \in at : \A j \in at : k <= j
          IN SubSeq(s, 1, i - 1) \o new \o SubSeq(s, i + Len(old), Len(s))

\* (a variant that accepts a root path that is a string prefix of dir)
MatchesRoot_StringPrefix(dir, expandedPath) == HasPrefix(dir, expandedPath)

\* The test of line 51 without its length part
MatchesRoot(dir, expandedPath) ==
  HasPrefix(dir, expandedPath \o Slash) \/ dir = expandedPath

\* Every (displayRoot, expandedPath) of the table that matches dir
RootMatches(rootMap, dir) ==
  {m \in UNION {{<<k, rootMap[k][i]>> : i \in 1..Len(rootMap[k])} : k \in DOMAIN rootMap} :
     MatchesRoot(dir, m[2])}

\* AbbreviatePath taking any matching root, whatever its length
AbbreviatePath_AnyMatch(rootMap, dir) ==
  LET matches == {m \in RootMatches(rootMap, dir) : Len(m[2]) > 0}
  IN IF matches = {} THEN {dir}
     ELSE {ReplaceFirst(dir, m[2], m[1]) : m \in matches}

\* AbbreviatePath: the strings it can return.  The table is a Go map, ranged
\* over in an unspecified order, and a match replaces the current one only
\* when it is strictly longer: of the matches of greatest length, the one
\* met first stays.
AbbreviatePath(rootMap, dir) ==
  LET matches == {m \in RootMatches(rootMap, dir) : Len(m[2]) > 0}
      longest == {m \in matches : \A o \in matches : Len(o[2]) <= Len(m[2])}
  IN IF matches = {} THEN {dir}
     ELSE {ReplaceFirst(dir, m[2], m[1]) : m \in longest}

\* Inputs of the walker
MaxArgs == 2

NameW == <<"w">>

NameV == <<"v">>

QuotedW == <<"'", "$", "w", "'">>

BothRefs == <<"$", "w", " ", "$", "v">>

TwoPaths == <<"/", "a", " ", "/", "b">>

BuiltinDefaultRoots ==
  << <<"s", "i", "t", "e", "s">>,
     <<"s", "i", "t", "e", "s", "U", "b", "u", "n", "t", "u">>,
     <<"w", "o", "r", "k">> >>

\* Config.DefaultRoots: the built-in list, or one from ~/.treeconfig.yml or
\* GIT_TREE_DEFAULT_ROOTS
DefaultRootsChoices == {BuiltinDefaultRoots, <<NameW, KeyV>>}

\* An environment value made of whitespace only
Blank == <<" ">>

EnvValues == {<<>>, PathA, PathAB, TwoPaths, Blank}

Environments == [{NameW, NameV} -> EnvValues]

RootArgs == {KeyW, QuotedW, KeyV, NameW, PathAB, PathRelative, BothRefs}

ArgLists == UNION {[1..n -> RootArgs] : n \in 0..MaxArgs}

\* The directories AbbreviatePath is asked about
Dirs == {PathA, PathAB, PathABC, PathB, PathADashB, Cwd \o Slash \o PathRelative}

\* No walker is built
IdleWalker ==
  /\ env = EmptyMap
  /\ defaultRoots = BuiltinDefaultRoots
  /\ args = <<>>
  /\ walker = NilWalker
  /\ walkErr = "nil"
  /\ abbrevDir = <<>>
  /\ abbrevOut = <<>>
  /\ wpc = "idle"

\* A process environment and a configuration, before NewGitTreeWalker
InitWalker ==
  /\ env \in Environments
  /\ defaultRoots \in DefaultRootsChoices
  /\ args = <<>>
  /\ walker = NilWalker
  /\ walkErr = "nil"
  /\ abbrevDir = <<>>
  /\ abbrevOut = <<>>
  /\ wpc = "start"

\* walker, err := NewGitTreeWalker(as, serial)
CallNewGitTreeWalker(as, serial) ==
  /\ wpc = "start"
  /\ LET got == NewGitTreeWalker(as, serial)
     IN /\ walker' = got.walker
        /\ walkErr' = got.err
        /\ wpc' = IF got.err = "nil" THEN "ready" ELSE "failed"
  /\ args' = as
  /\ UNCHANGED <<env, defaultRoots, abbrevDir, abbrevOut>>
  /\ UNCHANGED notWalk

\* walker.AbbreviatePath(dir)
CallAbbreviatePath(dir) ==
  /\ wpc = "ready"
  /\ abbrevDir' = dir
  /\ abbrevOut' \in AbbreviatePath(walker.RootMap, dir)
  /\ UNCHANGED <<env, defaultRoots, args, walker, walkErr, wpc>>
  /\ UNCHANGED notWalk

(***************************************************************************)
(* The directory tree and GitTreeWalker.FindAndProcessRepos                *)
(***************************************************************************)

DotGit == <<".", "g", "i", "t">>

DotVenv == <<".", "v", "e", "n", "v">>

\* ignoredDirectories
ignoredDirectories == <<Dot, DotDot, DotVenv>>

isIgnoredDirectory(name) == contains(ignoredDirectories, name)

\* filepath.Join(rootPath, entry)
JoinPath(rootPath, entry) == Clean(rootPath \o Slash \o entry)

\* os.Stat(rootPath) succeeds and info.IsDir(): fs maps every directory of
\* the tree to [ignore, git], git being "none", "dir" or "file"
IsDirectory(tree, path) == path \in DOMAIN tree

\* sortDirectoryEntries: the names of the subdirectories, sorted; a .git
\* directory is one of them
sortDirectoryEntries(tree, directoryPath) ==
  LET subdirs == {Base(p) : p \in {q \in DOMAIN tree : q # directoryPath /\ Dir(q) = directoryPath}}
      gitdir == IF tree[directoryPath].git = "dir" THEN {DotGit} ELSE {}
  IN SortStrings(SetToSeq(subdirs \cup gitdir))

\* The subdirectories findGitReposRecursive recurses into, in order (240-246)
RECURSIVE DropIgnored(_)
DropIgnored(entries) ==
  IF Len(entries) = 0 THEN <<>>
  ELSE IF isIgnoredDirectory(entries[1]) THEN DropIgnored(Tail(entries))
  ELSE <<entries[1]>> \o DropIgnored(Tail(entries))

Subdirectories(tree, rootPath) ==
  LET entries == DropIgnored(sortDirectoryEntries(tree, rootPath))
  IN [i \in 1..Len(entries) |-> JoinPath(rootPath, entries[i])]

\* Directories of the modelled tree
PathVenv == <<"/", "a", "/", ".", "v", "e", "n", "v">>

TreeDirs == {PathA, PathAB, PathVenv, PathB}

DirKinds ==
  {[ignore |-> FALSE, git |-> "none"], [ignore |-> FALSE, git |-> "dir"],
   [ignore |-> FALSE, git |-> "file"], [ignore |-> TRUE, git |-> "none"],
   [ignore |-> TRUE, git |-> "dir"]}

\* The trees: what each directory holds
Trees ==
  {t \in [TreeDirs -> DirKinds] :
     /\ t[PathVenv].git # "file" /\ ~t[PathVenv].ignore
     /\ t[PathAB].git # "file"
     /\ t[PathB].git # "file"}

TwoPathsBA == <<"/", "b", " ", "/", "a">>

\* Environments and command lines of the walks
WalkEnv == [n \in {NameW, NameV} |-> IF n = NameW THEN PathA ELSE PathB]

WalkEnvTwoPaths == [n \in {NameW, NameV} |-> IF n = NameW THEN TwoPathsBA ELSE PathAB]

WalkEnvironments == {WalkEnv, WalkEnvTwoPaths}

\* The command lines of the walks
WalkArgLists ==
  {<<KeyW, KeyV>>, <<KeyV, KeyW>>, <<KeyW>>, <<PathAB, NameW>>, <<PathRelative>>, <<>>}

\* FindAndProcessRepos is not in use
IdleFind ==
  /\ fs = EmptyMap
  /\ findPc = "idle"
  /\ rootArgs = <<>>
  /\ rootArg = <<>>
  /\ rootPathsLeft = <<>>
  /\ stack = <<>>
  /\ visited = {}
  /\ yielded = <<>>

\* A directory tree, before the walk
InitFind ==
  /\ fs \in Trees
  /\ findPc = "idle"
  /\ rootArgs = <<>>
  /\ rootArg = <<>>
  /\ rootPathsLeft = <<>>
  /\ stack = <<>>
  /\ visited = {}
  /\ yielded = <<>>

\* walker.Process(processFunc) enters FindAndProcessRepos, which collects
\* and sorts the keys of RootMap (106-113)
FindAndProcessRepos ==
  /\ wpc = "ready"
  /\ findPc = "idle"
  /\ findPc' = "finding"
  /\ rootArgs' = SortStrings(SetToSeq(DOMAIN walker.RootMap))
  /\ visited' = {}
  /\ UNCHANGED <<fs, rootArg, rootPathsLeft, stack, yielded>>
  /\ UNCHANGED notFind

\* The next rootArg of the outer loop: its paths are sorted in place (115-117)
NextRootArg ==
  /\ findPc = "finding"
  /\ stack = <<>>
  /\ rootPathsLeft = <<>>
  /\ rootArgs # <<>>
  /\ LET sorted == SortStrings(walker.RootMap[rootArgs[1]])
     IN /\ walker' = [walker EXCEPT !.RootMap = Put(walker.RootMap, rootArgs[1], sorted)]
        /\ rootPathsLeft' = sorted
  /\ rootArg' = rootArgs[1]
  /\ rootArgs' = Tail(rootArgs)
  /\ UNCHANGED <<fs, findPc, stack, visited, yielded>>
  /\ UNCHANGED <<env, defaultRoots, args, walkErr, abbrevDir, abbrevOut, wpc>>
  /\ UNCHANGED <<optVars, algVars, poolVars, nameVars>>

\* The next rootPath of the inner loop: findGitReposRecursive is called (118-119)
NextRootPath ==
  /\ findPc = "finding"
  /\ stack = <<>>
  /\ rootPathsLeft # <<>>
  /\ stack' = <<rootPathsLeft[1]>>
  /\ rootPathsLeft' = Tail(rootPathsLeft)
  /\ UNCHANGED <<fs, findPc, rootArgs, rootArg, visited, yielded>>
  /\ UNCHANGED notFind

\* One call of findGitReposRecursive, for the directory on top of the stack
\* of pending calls; the calls for its subdirectories come before the others
findGitReposRecursive ==
  /\ findPc = "finding"
  /\ stack # <<>>
  /\ LET rootPath == stack[1]
         rest == Tail(stack)
     IN IF ~IsDirectory(fs, rootPath) \/ fs[rootPath].ignore \/ fs[rootPath].git = "file"
        THEN stack' = rest /\ UNCHANGED <<visited, yielded>>
        ELSE IF fs[rootPath].git = "dir"
        THEN /\ stack' = rest
             /\ IF rootPath \notin visited
                THEN /\ visited' = visited \cup {rootPath}
                     /\ yielded' = Append(yielded, <<rootPath, rootArg>>)
                ELSE UNCHANGED <<visited, yielded>>
        ELSE /\ stack' = Subdirectories(fs, rootPath) \o rest
             /\ UNCHANGED <<visited, yielded>>
  /\ UNCHANGED <<fs, findPc, rootArgs, rootArg, rootPathsLeft>>
  /\ UNCHANGED notFind

\* FindAndProcessRepos returns
FindReturn ==
  /\ findPc = "finding"
  /\ stack = <<>>
  /\ rootPathsLeft = <<>>
  /\ rootArgs = <<>>
  /\ findPc' = "done"
  /\ UNCHANGED <<fs, rootArgs, rootArg, rootPathsLeft, stack, visited, yielded>>
  /\ UNCHANGED notFind

(***************************************************************************)
(* generateVarName is called                                               *)
(***************************************************************************)

NameEmpty == <<>>

NameDot == <<".">>

NameRoot == <<"/">>

NameTrailing == <<"/", "a", "/">>

NameDotLast == <<"/", "a", "/", ".">>

NameDotDotLast == <<"/", "a", "/", ".", ".">>

NameHidden == <<"/", "a", "/", ".", "g", "i", "t">>

NameWww == <<"/", "p", "/", "w", "w", "w", ".", "e", "x">>

NameWwwOnly == <<"/", "p", "/", "w", "w", "w">>

NameDashed == <<"/", "p", "/", "m", "y", "-", "p">>

NameDigit == <<"/", "p", "/", "1", "p">>

NameDotted == <<"/", "p", "/", "b", ".", "c">>

NameUpper == <<"/", "p", "/", "B", "9">>

NameSpaced == <<"/", "p", "/", "a", " ", "b">>

NameOtherB == <<"/", "x", "/", "b">>

NameDigitParent == <<"/", "1", "/", "b">>

NameHiddenParent == <<"/", ".", "h", "/", "b">>

\* The argument paths
NamePaths ==
  {PathA, PathAB, NameEmpty, NameDot, NameRoot, NameTrailing, NameDotLast, NameDotDotLast, NameHidden,
   NameWww, NameWwwOnly, NameDashed, NameDigit, NameDotted, NameUpper,
   NameSpaced, NameOtherB, NameDigitParent, NameHiddenParent}

\* zo.definedVars when the call is made: name -> source path
NameTables ==
  {EmptyMap,
   Put(EmptyMap, <<"b">>, PathAB),
   Put(EmptyMap, <<"e", "x">>, PathA),
   Put(Put(EmptyMap, <<"b">>, PathAB), <<"m", "y", "_", "p">>, PathB)}

\* No call of generateVarName
IdleName ==
  /\ namePath = <<>>
  /\ nameOut = <<>>
  /\ namePc = "idle"

\* An optimizer with some bindings, and a path to name
InitName ==
  /\ namePath \in NamePaths
  /\ nameOut = <<>>
  /\ namePc = "call"

\* zo.generateVarName(path)
CallGenerateVarName ==
  /\ namePc = "call"
  /\ nameOut' = generateVarName(definedVars, namePath)
  /\ namePc' = "returned"
  /\ UNCHANGED <<namePath, optVars>>
  /\ UNCHANGED notName

(***************************************************************************)
(* ThreadPoolManager                                                       *)
(***************************************************************************)

\* Bounds of the pool: runtime.NumCPU() * percent, the AddTask calls of one
\* run, and the capacity of workQueue (100 in NewThreadPoolManager)
MaxWorkers == 2

MaxTasks == 3

QueueCapacity == 2

\* The nil task: the shutdown signal
NilTask == 0

\* The tasks a caller passes: task n is the n-th AddTask call's argument
TaskIds == 1..MaxTasks

\* tp.workQueue <- x can proceed
CanSend == Len(workQueue) < QueueCapacity

\* The pool is not in use
IdlePool ==
  /\ workerCount = 1
  /\ started = FALSE
  /\ workQueue = <<>>
  /\ workers = EmptyMap
  /\ mainPc = "idle"
  /\ signalsLeft = 0
  /\ added = <<>>
  /\ shutdownCalled = FALSE
  /\ sent = <<>>
  /\ runs = <<>>
  /\ finished = {}

\* pool := NewThreadPoolManager(percent), on a machine with some CPU count
InitPool ==
  /\ workerCount \in 1..MaxWorkers
  /\ started = FALSE
  /\ workQueue = <<>>
  /\ workers = EmptyMap
  /\ mainPc = "caller"
  /\ signalsLeft = 0
  /\ added = <<>>
  /\ shutdownCalled = FALSE
  /\ sent = <<>>
  /\ runs = <<>>
  /\ finished = {}

\* pool.Start(taskFunc): workerCount goroutines are started
Start ==
  /\ mainPc = "caller"
  /\ ~started
  /\ started' = TRUE
  /\ workers' = [w \in 0..(workerCount - 1) |-> [pc |-> "receive", task |-> NilTask]]
  /\ UNCHANGED <<workerCount, workQueue, mainPc, signalsLeft, added, shutdownCalled, sent, runs, finished>>
  /\ UNCHANGED notPool

\* pool.AddTask(task) is called: it panics before Start, else it goes on to
\* tp.workQueue <- task
AddTask(task) ==
  /\ mainPc = "caller"
  /\ Len(added) < MaxTasks
  /\ added' = Append(added, task)
  /\ mainPc' = IF started THEN "AddTask" ELSE "panicked"
  /\ UNCHANGED <<workerCount, started, workQueue, workers, signalsLeft, shutdownCalled,
                 sent, runs, finished>>
  /\ UNCHANGED notPool

\* tp.workQueue <- task of AddTask, which waits while the queue is full; then
\* AddTask returns
SendTask ==
  /\ mainPc = "AddTask"
  /\ CanSend
  /\ workQueue' = Append(workQueue, added[Len(added)])
  /\ sent' = Append(sent, added[Len(added)])
  /\ mainPc' = "caller"
  /\ UNCHANGED <<workerCount, started, workers, signalsLeft, added, shutdownCalled,
                 runs, finished>>
  /\ UNCHANGED notPool

\* pool.Shutdown() is called, or pool.WaitForCompletion() which calls it:
\* on a pool that was not started Shutdown returns at once, else it has
\* workerCount nils to send
EnterShutdown(waiting) ==
  /\ mainPc = "caller"
  /\ waiting \/ ~shutdownCalled
  /\ shutdownCalled' = TRUE
  /\ signalsLeft' = IF started THEN workerCount ELSE 0
  /\ mainPc' = IF started
               THEN IF waiting THEN "WaitForCompletion:Shutdown" ELSE "Shutdown"
               ELSE IF waiting THEN "WaitForCompletion:Wait" ELSE "caller"
  /\ UNCHANGED <<workerCount, started, workQueue, workers, added, sent, runs, finished>>
  /\ UNCHANGED notPool

\* (a variant of Shutdown's loop that counts a signal without sending it)
SendShutdownSignal_WithoutSending ==
  /\ mainPc \in {"Shutdown", "WaitForCompletion:Shutdown"}
  /\ signalsLeft > 0
  /\ signalsLeft' = signalsLeft - 1
  /\ mainPc' = IF signalsLeft > 1 THEN mainPc
               ELSE IF mainPc = "Shutdown" THEN "caller"
               ELSE "WaitForCompletion:Wait"
  /\ UNCHANGED <<workerCount, started, workQueue, workers, added, shutdownCalled,
                 sent, runs, finished>>
  /\ UNCHANGED notPool

\* One tp.workQueue <- nil of Shutdown's loop; after the last one Shutdown
\* returns
SendShutdownSignal ==
  /\ mainPc \in {"Shutdown", "WaitForCompletion:Shutdown"}
  /\ signalsLeft > 0
  /\ CanSend
  /\ workQueue' = Append(workQueue, NilTask)
  /\ sent' = Append(sent, NilTask)
  /\ signalsLeft' = signalsLeft - 1
  /\ mainPc' = IF signalsLeft > 1 THEN mainPc
               ELSE IF mainPc = "Shutdown" THEN "caller"
               ELSE "WaitForCompletion:Wait"
  /\ UNCHANGED <<workerCount, started, workers, added, shutdownCalled, runs, finished>>
  /\ UNCHANGED notPool

\* WaitForCompletion closes the queue and returns without waiting for the
\* workers
WaitForCompletionReturn_WithoutWaiting ==
  /\ mainPc = "WaitForCompletion:Wait"
  /\ mainPc' = "returned"
  /\ UNCHANGED <<workerCount, started, workQueue, workers, signalsLeft, added,
                 shutdownCalled, sent, runs, finished>>
  /\ UNCHANGED notPool

\* WaitForCompletion has waited for every worker's WaitGroup, closes the
\* queue and returns
WaitForCompletionReturn ==
  /\ mainPc = "WaitForCompletion:Wait"
  /\ \A w \in DOMAIN workers : workers[w].pc = "exited"
  /\ mainPc' = "returned"
  /\ UNCHANGED <<workerCount, started, workQueue, workers, signalsLeft, added, shutdownCalled, sent, runs, finished>>
  /\ UNCHANGED notPool

\* worker: `for task := range tp.workQueue` receives; nil breaks the loop and
\* the deferred wg.Done() runs, any other task is handed to taskFunc
WorkerReceive(w) ==
  /\ workers[w].pc = "receive"
  /\ workQueue # <<>>
  /\ workQueue' = Tail(workQueue)
  /\ IF workQueue[1] = NilTask
     THEN /\ workers' = [workers EXCEPT ![w] = [pc |-> "exited", task |-> NilTask]]
          /\ UNCHANGED runs
     ELSE /\ workers' = [workers EXCEPT ![w] = [pc |-> "taskFunc", task |-> workQueue[1]]]
          /\ runs' = Append(runs, <<workQueue[1], w>>)
  /\ UNCHANGED <<workerCount, started, mainPc, signalsLeft, added, shutdownCalled, sent, finished>>
  /\ UNCHANGED notPool

\* worker: taskFunc(task, workerID) returns
WorkerTaskDone(w) ==
  /\ workers[w].pc = "taskFunc"
  /\ workers' = [workers EXCEPT ![w] = [pc |-> "receive", task |-> NilTask]]
  /\ finished' = finished \cup {workers[w].task}
  /\ UNCHANGED <<workerCount, started, workQueue, mainPc, signalsLeft, added, shutdownCalled, sent, runs>>
  /\ UNCHANGED notPool

\* The argument of the next AddTask call: nil, or a task of its own
NextTask == Cardinality({i \in 1..Len(added) : added[i] # NilTask}) + 1


Init == InitOptimizer /\ IdleAlgebra /\ IdleWalker /\ IdleFind /\ IdlePool /\ IdleName

Next ==
  \/ \E roots \in InitialRootLists(initialVars) : \E ps \in PathSets :
       OptimizeCall(ps, roots)
  \/ \E prefix \in prefixesLeft : DefineIntermediateVar(prefix)
  \/ IntermediateDone
  \/ OptimizeTerminal
  \/ OptimizeReturn

Spec == Init /\ [][Next]_vars

\* A second optimizer is built from the same table and its Optimize is
\* entered with the same arguments: NewZoweeOptimizer(initialVars).Optimize(
\* paths, initialRoots) once more, after the first one has returned.
SecondRun ==
  /\ UNCHANGED notOpt
  /\ pc = "done"
  /\ run = 1
  /\ run' = 2
  /\ previous' = result
  /\ definedVars' \in NewZoweeOptimizer(initialVars)
  /\ intermediateVars' = EmptyMap
  /\ output' = <<>>
  /\ result' = <<>>
  /\ prefixesLeft' = AllPrefixes(paths)
  /\ next' = 1
  /\ sourceOf' = {}
  /\ pc' = "intermediate"
  /\ UNCHANGED <<initialVars, paths, initialRoots>>

NextRerun == Next \/ SecondRun

SpecRerun == Init /\ [][NextRerun]_vars

(***************************************************************************)
(* Optimize is called twice on one optimizer                               *)
(***************************************************************************)

\* zo.Optimize(paths, initialRoots) is entered once more on the optimizer
\* whose Optimize has returned: output is a new slice, definedVars and
\* intermediateVars are the fields the first call left behind
SecondCall ==
  /\ pc = "done"
  /\ run = 1
  /\ run' = 2
  /\ previous' = result
  /\ output' = <<>>
  /\ result' = <<>>
  /\ prefixesLeft' = AllPrefixes(paths)
  /\ next' = 1
  /\ sourceOf' = {}
  /\ pc' = "intermediate"
  /\ UNCHANGED <<initialVars, definedVars, intermediateVars, paths, initialRoots>>
  /\ UNCHANGED notOpt

NextReuse == Next \/ SecondCall

SpecReuse == Init /\ [][NextReuse]_vars

(***************************************************************************)
(* Optimize on a list and on the list without its repetitions              *)
(***************************************************************************)

\* A second optimizer is built from the same table and its Optimize is
\* entered with the paths of the first call, every repeated occurrence
\* removed, and the same initialRoots
SecondRunWithoutRepetitions ==
  /\ UNCHANGED notOpt
  /\ pc = "done"
  /\ run = 1
  /\ run' = 2
  /\ previous' = result
  /\ paths' = uniqueStrings(paths)
  /\ definedVars' \in NewZoweeOptimizer(initialVars)
  /\ intermediateVars' = EmptyMap
  /\ output' = <<>>
  /\ result' = <<>>
  /\ prefixesLeft' = AllPrefixes(uniqueStrings(paths))
  /\ next' = 1
  /\ sourceOf' = {}
  /\ pc' = "intermediate"
  /\ UNCHANGED <<initialVars, initialRoots>>

NextWithoutRepetitions == Next \/ SecondRunWithoutRepetitions

SpecWithoutRepetitions == Init /\ [][NextWithoutRepetitions]_vars

(***************************************************************************)
(* Optimize on lists of paths under two sibling directories                *)
(***************************************************************************)

WideLen == 4

WidePaths == {<<"/", "a", "b", "/", "c">>, <<"/", "a", "b", "/", "d">>, <<"/", "b", "/", "c">>, <<"/", "b", "/", "d">>}

WidePathSets == [1..WideLen -> WidePaths]

NextWide ==
  \/ \E roots \in InitialRootLists(initialVars) : \E ps \in WidePathSets :
       OptimizeCall(ps, roots)
  \/ \E prefix \in prefixesLeft : DefineIntermediateVar(prefix)
  \/ IntermediateDone
  \/ OptimizeTerminal
  \/ OptimizeReturn

SpecWide == Init /\ [][NextWide]_vars

(***************************************************************************)
(* One call of a path function on drawn arguments                          *)
(***************************************************************************)

\* The optimizer is not in use
IdleOptimizer ==
  /\ initialVars = EmptyMap
  /\ definedVars = EmptyMap
  /\ intermediateVars = EmptyMap
  /\ paths = <<>>
  /\ initialRoots = <<>>
  /\ prefixesLeft = {}
  /\ next = 1
  /\ output = <<>>
  /\ result = <<>>
  /\ pc = "idle"
  /\ run = 1
  /\ previous = <<>>
  /\ sourceOf = {}

InitPathAlgebra == IdleOptimizer /\ InitAlgebra /\ IdleWalker /\ IdleFind /\ IdlePool /\ IdleName

NextPathAlgebra ==
  \/ CallCommonPrefix
  \/ CallRoots
  \/ CallTrimToLevel

SpecPathAlgebra == InitPathAlgebra /\ [][NextPathAlgebra]_vars

(***************************************************************************)
(* A walker is built from root arguments and asked to abbreviate paths     *)
(***************************************************************************)

InitWalking == IdleOptimizer /\ IdleAlgebra /\ InitWalker /\ IdleFind /\ IdlePool /\ IdleName

NextWalking ==
  \/ \E as \in ArgLists : \E serial \in BOOLEAN : CallNewGitTreeWalker(as, serial)
  \/ \E dir \in Dirs : CallAbbreviatePath(dir)

SpecWalker == InitWalking /\ [][NextWalking]_vars

(***************************************************************************)
(* A walker is built and walks a directory tree                            *)
(***************************************************************************)

InitFinding ==
  /\ IdleOptimizer /\ IdleAlgebra /\ InitFind /\ IdlePool /\ IdleName
  /\ env \in WalkEnvironments
  /\ defaultRoots = BuiltinDefaultRoots
  /\ args = <<>>
  /\ walker = NilWalker
  /\ walkErr = "nil"
  /\ abbrevDir = <<>>
  /\ abbrevOut = <<>>
  /\ wpc = "start"

NextFinding ==
  \/ \E as \in WalkArgLists : \E serial \in BOOLEAN : CallNewGitTreeWalker(as, serial)
  \/ FindAndProcessRepos
  \/ NextRootArg
  \/ NextRootPath
  \/ findGitReposRecursive
  \/ FindReturn

SpecFind == InitFinding /\ [][NextFinding]_vars

(***************************************************************************)
(* A pool is created, started, fed and waited for                          *)
(***************************************************************************)

InitPooling == IdleOptimizer /\ IdleAlgebra /\ IdleWalker /\ IdleFind /\ InitPool /\ IdleName

NextPooling ==
  \/ Start
  \/ \E task \in {NilTask, NextTask} : AddTask(task)
  \/ SendTask
  \/ \E waiting \in BOOLEAN : EnterShutdown(waiting)
  \/ SendShutdownSignal
  \/ WaitForCompletionReturn
  \/ \E w \in DOMAIN workers : WorkerReceive(w)
  \/ \E w \in DOMAIN workers : WorkerTaskDone(w)

SpecPool == InitPooling /\ [][NextPooling]_vars

\* The Go scheduler runs every goroutine that can take a step: a worker that
\* can receive or whose taskFunc returns, and the caller inside a call.  What
\* the caller calls next, and whether it calls anything, is its own choice.
FairPool ==
  /\ \A w \in 0..(MaxWorkers - 1) : WF_vars(w \in DOMAIN workers /\ WorkerReceive(w))
  /\ \A w \in 0..(MaxWorkers - 1) : WF_vars(w \in DOMAIN workers /\ WorkerTaskDone(w))
  /\ WF_vars(SendTask)
  /\ WF_vars(SendShutdownSignal)
  /\ WF_vars(WaitForCompletionReturn)

SpecPoolFair == SpecPool /\ FairPool

(***************************************************************************)
(* A name is generated                                                     *)
(***************************************************************************)

InitNaming ==
  /\ definedVars \in NameTables
  /\ initialVars = EmptyMap
  /\ intermediateVars = EmptyMap
  /\ paths = <<>>
  /\ initialRoots = <<>>
  /\ prefixesLeft = {}
  /\ next = 1
  /\ output = <<>>
  /\ result = <<>>
  /\ pc = "idle"
  /\ run = 1
  /\ previous = <<>>
  /\ sourceOf = {}
  /\ IdleAlgebra /\ IdleWalker /\ IdleFind /\ IdlePool /\ InitName

NextNaming == CallGenerateVarName

SpecVarName == InitNaming /\ [][NextNaming]_vars

(***************************************************************************)
(* Reading the returned lines                                              *)
(***************************************************************************)

EqualsAt(line) ==
  CHOOSE i \in 1..Len(line) : line[i] = "=" /\ \A j \in 1..(i - 1) : line[j] # "="

\* NAME and VALUE of a line `export NAME=VALUE`
NameOf(line) == SubSeq(line, Len(Export) + 1, EqualsAt(line) - 1)

ValueOf(line) == SubSeq(line, EqualsAt(line) + 1, Len(line))

Range(seq) == {seq[i] : i \in 1..Len(seq)}

\* The names under which NewZoweeOptimizer seeds the roots of a table
SeededNames(table) == {SeedName(k) : k \in SeedKeys(table)}

\* The lines of the returned list that were rendered for path p
LinesFor(p) == {l \in Range(result) : \E s \in sourceOf : s[1] = l /\ s[2] = p}

TerminalLinesFor(p) == {l \in Range(result) : <<l, p, "terminal">> \in sourceOf}

\* p is the path bound to a root whose display key is in initialRoots
MatchesSuppliedRoot(p) ==
  \E k \in Range(initialRoots) : k \in SeedKeys(initialVars) /\ initialVars[k][1] = p

Returned == pc = "done" /\ run = 1

(***************************************************************************)
(* Claims about Optimize                                                   *)
(***************************************************************************)

\* The name a VALUE refers to is defined by one of the first i - 1 lines
DefinedBefore(i, value) ==
  \E n \in {NameOf(result[j]) : j \in 1..(i - 1)} :
    HasPrefix(value, <<"$">> \o n \o Slash)

RefersToSeed(value) ==
  \E n \in SeededNames(initialVars) : HasPrefix(value, <<"$">> \o n \o Slash)

IsReference(value) == Len(value) > 0 /\ value[1] = "$"

\* C1 as stated: in the list Optimize returns, every VALUE that refers to a
\* variable (`$name/...`) refers to a name that a strictly earlier line of
\* the same list defines.
C1_NoForwardReferences ==
  Returned =>
    \A i \in 1..Len(result) :
      IsReference(ValueOf(result[i])) => DefinedBefore(i, ValueOf(result[i]))

\* C1 amended: every VALUE that refers to a variable refers to a name that a
\* strictly earlier line of the list defines, or to a root variable that
\* NewZoweeOptimizer seeded from the initial table.
C1_NoForwardReferencesBeyondSeeds ==
  Returned =>
    \A i \in 1..Len(result) :
      IsReference(ValueOf(result[i])) =>
        DefinedBefore(i, ValueOf(result[i])) \/ RefersToSeed(ValueOf(result[i]))

\* A returned list in which one line refers to a seeded root that no line
\* defines, and another line refers to a variable an earlier line defines.
C1_Witness ==
  /\ Returned
  /\ \E i \in 1..Len(result) :
       /\ IsReference(ValueOf(result[i]))
       /\ RefersToSeed(ValueOf(result[i]))
       /\ ~DefinedBefore(i, ValueOf(result[i]))
  /\ \E i \in 1..Len(result) :
       /\ IsReference(ValueOf(result[i]))
       /\ DefinedBefore(i, ValueOf(result[i]))
       /\ ~RefersToSeed(ValueOf(result[i]))

\* C2: no two lines of the returned list define the same NAME for two
\* different source paths.
C2_CollisionFree ==
  Returned =>
    \A s1, s2 \in sourceOf :
      (/\ s1[1] \in Range(result)
       /\ s2[1] \in Range(result)
       /\ NameOf(s1[1]) = NameOf(s2[1])) => s1[2] = s2[2]

\* C3: a second, freshly constructed optimizer given the same table, the
\* same paths and the same initialRoots returns the list the first returned.
C3_Deterministic == (pc = "done" /\ run = 2) => result = previous

\* C4: every distinct input path has exactly one terminal line in the
\* returned list, except a path that matches a caller-supplied root, which
\* has none.
C4_OneTerminalLinePerPath ==
  Returned =>
    \A p \in Range(paths) :
      Cardinality(TerminalLinesFor(p)) = IF MatchesSuppliedRoot(p) THEN 0 ELSE 1

ExportB == <<"e", "x", "p", "o", "r", "t", " ", "b", "=", "/", "a", "/", "b">>

ExportC == <<"e", "x", "p", "o", "r", "t", " ", "c", "=", "$", "b", "/", "c">>

ExportD == <<"e", "x", "p", "o", "r", "t", " ", "d", "=", "$", "b", "/", "d">>

\* C8: Optimize(["/a/b", "/a/b/c", "/a/b/d"], []) on an optimizer without
\* initial variables returns exactly `export b=/a/b`, `export c=$b/c`,
\* `export d=$b/d`.
C8_NoIntermediateAboveAncestor ==
  (/\ Returned
   /\ DOMAIN initialVars = {}
   /\ initialRoots = <<>>
   /\ paths = <<PathAB, PathABC, PathABD>>) => result = <<ExportB, ExportC, ExportD>>

\* C9: no line is returned for an input path that is the path bound to a
\* root whose display key is in initialRoots.
C9_SuppliedRootNotRedefined ==
  Returned => \A p \in Range(paths) : MatchesSuppliedRoot(p) => LinesFor(p) = {}

(***************************************************************************)
(* AbbreviatePath                                                          *)
(***************************************************************************)

\* The display keys of the walker's table under which the path is stored
KeysStoring(path) ==
  {k \in DOMAIN walker.RootMap : path \in Range(walker.RootMap[k])}

\* Claim C5, as stated: AbbreviatePath applied to a path stored under display
\* key k returns exactly k, also when another display key maps to the same
\* path or to a shorter enclosing one.
C5_ReturnsExactlyItsKey ==
  wpc = "ready" => \A k \in KeysStoring(abbrevDir) : abbrevOut = k

\* Claim C5, amended: AbbreviatePath applied to a path stored in the table
\* returns a display key under which that very path is stored; it is exactly
\* k when k is the only key storing the path, and a key that only stores a
\* shorter enclosing path never wins.
C5_ReturnsAKeyStoringThePath ==
  (wpc = "ready" /\ KeysStoring(abbrevDir) # {}) => abbrevOut \in KeysStoring(abbrevDir)

\* AbbreviatePath was asked about a path stored under one key only while
\* another key stores a shorter enclosing path, and returned the former key
C5_Witness ==
  /\ wpc = "ready"
  /\ KeysStoring(abbrevDir) = {abbrevOut}
  /\ \E k \in DOMAIN walker.RootMap : \E i \in 1..Len(walker.RootMap[k]) :
       /\ k # abbrevOut
       /\ HasPrefix(abbrevDir, walker.RootMap[k][i] \o Slash)

(***************************************************************************)
(* Roots and CommonPrefix                                                  *)
(***************************************************************************)

RootSub1Sub2 == <<"/", "r", "o", "o", "t", "/", "s", "u", "b", "1", "/", "s", "u", "b", "2">>

RootSub1 == <<"/", "r", "o", "o", "t", "/", "s", "u", "b", "1">>

\* Claim C6: Roots(["/root/sub1/sub2/sub3", "/root/sub1/sub2/sub4"], level,
\* false) returns "/root/sub1/sub2" for level 1 and "/root/sub1" for level 2.
C6_RootsOfTwoSiblings ==
  (/\ algCall = "Roots"
   /\ algPaths = <<PathSub3, PathSub4>>
   /\ algAllow = FALSE
   /\ algLevel \in {1, 2})
  => algOut = Returns(IF algLevel = 1 THEN RootSub1Sub2 ELSE RootSub1)

\* The longest run of leading components that all the paths have
SharedRun(ps) ==
  LET parts == [i \in 1..Len(ps) |-> Split(ps[i], "/")]
      shared == {k \in 0..Len(parts[1]) :
                   \A i \in 1..Len(ps) :
                     Len(parts[i]) >= k /\ SubSeq(parts[i], 1, k) = SubSeq(parts[1], 1, k)}
      longest == CHOOSE k \in shared : \A j \in shared : j <= k
  IN SubSeq(parts[1], 1, longest)

\* Claim C7: for two or more absolute paths, CommonPrefix returns the longest
\* run of leading /-delimited components shared by every input path (the
\* root alone being "/" or "" as allowRootMatch says), in any input order.
C7_CommonPrefixSharedByAll ==
  (/\ algCall = "CommonPrefix"
   /\ Len(algPaths) >= 2
   /\ \A i \in 1..Len(algPaths) : HasPrefix(algPaths[i], Slash))
  => LET joined == Join(SharedRun(algPaths), "/")
     IN algOut = Returns(IF joined = <<>> /\ algAllow THEN Slash ELSE joined)

(***************************************************************************)
(* NewGitTreeWalker                                                        *)
(***************************************************************************)

\* arg is $IDENT or '$IDENT' for an IDENT that is unset or empty
IsUndefinedReference(arg) ==
  \E name \in {SubSeq(arg, 2, Len(arg)), SubSeq(arg, 3, Len(arg) - 1)} :
    /\ IsIdent(name)
    /\ arg \in {<<"$">> \o name, <<"'", "$">> \o name \o <<"'">>}
    /\ Getenv(name) = <<>>

\* Claim C10: if any root argument is an explicit reference ($IDENT or
\* '$IDENT') to an environment variable that is unset or empty,
\* NewGitTreeWalker returns an error and no walker, at whatever position the
\* argument occurs.
C10_UndefinedReferenceFailsConstruction ==
  (/\ wpc \in {"ready", "failed"}
   /\ \E i \in 1..Len(ExpandedArgs(args)) : IsUndefinedReference(ExpandedArgs(args)[i]))
  => walker = NilWalker /\ walkErr # "nil" /\ wpc = "failed"

\* NewGitTreeWalker failed on an undefined reference that came after an
\* argument which had already filled the root table
C10_Witness ==
  /\ wpc = "failed"
  /\ walker = NilWalker
  /\ LET expandedArgs == ExpandedArgs(args)
     IN /\ Len(expandedArgs) >= 2
        /\ processRootArg(EmptyMap, expandedArgs[1]).RootMap # EmptyMap
        /\ \E i \in 2..Len(expandedArgs) : IsUndefinedReference(expandedArgs[i])

(***************************************************************************)
(* FindAndProcessRepos                                                     *)
(***************************************************************************)

\* The display key an argument is stored under
DisplayKeyOf(arg) ==
  LET stored == DOMAIN processRootArg(EmptyMap, arg).RootMap
  IN IF stored = {} THEN arg ELSE CHOOSE k \in stored : TRUE

\* The place of a root on the command line: the first argument stored under it
CommandLinePlace(key) ==
  LET places == {i \in 1..Len(walker.DisplayRoots) : DisplayKeyOf(walker.DisplayRoots[i]) = key}
  IN CHOOSE i \in places : \A j \in places : i <= j

\* Claim C11: in serial mode the repositories are handed over one at a time
\* and the roots are visited in the order of the command line: every
\* repository of an earlier-specified root before any of a later one.
C11_SerialRootsInCommandLineOrder ==
  (walker.Serial /\ findPc \in {"finding", "done"}) =>
    \A i, j \in 1..Len(yielded) :
      i < j => CommandLinePlace(yielded[i][2]) <= CommandLinePlace(yielded[j][2])

\* The directories the callback was called with
YieldedDirs == {yielded[i][1] : i \in 1..Len(yielded)}

\* dir is d or lies anywhere beneath d
IsOrLiesBeneath(dir, d) == dir = d \/ HasPrefix(dir, d \o Slash)

\* dir is, or lies beneath, a directory containing a .ignore entry
IsIgnored(dir) == \E d \in DOMAIN fs : fs[d].ignore /\ IsOrLiesBeneath(dir, d)

\* dir is a directory under one of the roots of the table
IsUnderRoots(dir) ==
  /\ dir \in DOMAIN fs
  /\ \E k \in DOMAIN walker.RootMap : \E i \in 1..Len(walker.RootMap[k]) :
       IsOrLiesBeneath(dir, walker.RootMap[k][i])

\* Claim C12: FindAndProcessRepos never yields a repository that is, or lies
\* anywhere beneath, a directory containing a .ignore entry, and it yields
\* every other directory under the roots that contains a .git directory and
\* is not beneath another yielded repository.
C12_YieldsExactlyTheUnignoredRepos ==
  findPc = "done" =>
    /\ \A dir \in YieldedDirs : ~IsIgnored(dir)
    /\ \A dir \in DOMAIN fs :
         (/\ IsUnderRoots(dir)
          /\ fs[dir].git = "dir"
          /\ ~IsIgnored(dir)
          /\ ~\E y \in YieldedDirs : y # dir /\ IsOrLiesBeneath(dir, y))
         => dir \in YieldedDirs

(***************************************************************************)
(* ThreadPoolManager                                                       *)
(***************************************************************************)

\* The calls of taskFunc for a task
RunsOf(task) == {i \in 1..Len(runs) : runs[i][1] = task}

\* The non-nil tasks passed to AddTask so far
TasksAdded == {added[i] : i \in 1..Len(added)} \ {NilTask}

\* The nils, nil tasks and shutdown signals alike, sent to the queue before
\* the task was
NilsAhead(task) ==
  LET at == CHOOSE i \in 1..Len(sent) : sent[i] = task
  IN Cardinality({i \in 1..(at - 1) : sent[i] = NilTask})

\* Claim C13, as stated: for a started pool, every non-nil task passed to
\* AddTask before WaitForCompletion is executed by exactly one worker exactly
\* once, and all of them have finished when WaitForCompletion returns.
C13_EveryTaskRunsExactlyOnce ==
  /\ \A task \in TasksAdded : Cardinality(RunsOf(task)) <= 1
  /\ (started /\ mainPc = "returned") =>
       \A task \in TasksAdded : Cardinality(RunsOf(task)) = 1 /\ task \in finished

\* Claim C13, amended: no task is ever run twice, and when WaitForCompletion
\* returns every non-nil task that was sent with fewer than workerCount nils
\* ahead of it (nil tasks or signals of an earlier Shutdown) has been
\* executed exactly once and has finished, while a task behind workerCount
\* or more nils has not been executed at all.
C13_EveryTaskAheadOfTheNilsRunsExactlyOnce ==
  /\ \A task \in TasksAdded : Cardinality(RunsOf(task)) <= 1
  /\ (started /\ mainPc = "returned") =>
       \A task \in TasksAdded :
         IF NilsAhead(task) < workerCount
         THEN Cardinality(RunsOf(task)) = 1 /\ task \in finished
         ELSE RunsOf(task) = {}

\* WaitForCompletion has returned on a pool of two workers that both ran
\* tasks, all tasks have finished, one of them sent behind a nil
C13_Witness ==
  /\ started /\ mainPc = "returned"
  /\ Cardinality(TasksAdded) >= 2
  /\ TasksAdded \subseteq finished
  /\ \E i, j \in 1..Len(runs) : runs[i][2] # runs[j][2]
  /\ \E task \in TasksAdded : NilsAhead(task) = 1

(***************************************************************************)
(* The order of the lines Optimize returns                                 *)
(***************************************************************************)

\* The positions of the returned list that hold a line of the class
LinesOfClass(class) ==
  {i \in 1..Len(result) : \E s \in sourceOf : s[1] = result[i] /\ s[3] = class}

\* A path the line was rendered for
SourcePaths(line, class) == {s[2] : s \in {t \in sourceOf : t[1] = line /\ t[3] = class}}

\* The intermediate lines come before all terminal lines
IntermediatesFirst ==
  \A i \in LinesOfClass("intermediate") : \A j \in LinesOfClass("terminal") :
    SourcePaths(result[j], "intermediate") = {} => i < j

\* The terminal lines stand in the order of their paths in the input: they
\* can be matched to input positions that increase along the list
TerminalsInInputOrder ==
  LET terminal == {i \in LinesOfClass("terminal") : SourcePaths(result[i], "intermediate") = {}}
  IN \E f \in [terminal -> 1..Len(paths)] :
       /\ \A i \in terminal : paths[f[i]] \in SourcePaths(result[i], "terminal")
       /\ \A i, j \in terminal : i < j => f[i] < f[j]

\* Claim C14, as stated: the returned list consists of all intermediate
\* lines first, ordered by ascending length of their source path, followed
\* by the terminal lines in the order of their paths in the input.
C14_IntermediatesByLengthThenTerminals ==
  Returned =>
    /\ IntermediatesFirst
    /\ \A i, j \in LinesOfClass("intermediate") :
         i < j => \E p \in SourcePaths(result[i], "intermediate") :
                    \E q \in SourcePaths(result[j], "intermediate") : Len(p) <= Len(q)
    /\ TerminalsInInputOrder

\* Claim C14, amended: the returned list consists of all intermediate lines
\* first, ordered by ascending byte order of their source path (sort.Strings),
\* followed by the terminal lines in the order of their paths in the input.
C14_IntermediatesByPathThenTerminals ==
  Returned =>
    /\ IntermediatesFirst
    /\ \A i, j \in LinesOfClass("intermediate") :
         i < j => \E p \in SourcePaths(result[i], "intermediate") :
                    \E q \in SourcePaths(result[j], "intermediate") : Less(p, q)
    /\ TerminalsInInputOrder

\* A returned list with two intermediate lines, the longer source path
\* first, and terminal lines behind them
C14_Witness ==
  /\ Returned
  /\ LinesOfClass("terminal") # {}
  /\ \E i, j \in LinesOfClass("intermediate") :
       /\ i < j
       /\ \E p \in SourcePaths(result[i], "intermediate") :
            \E q \in SourcePaths(result[j], "intermediate") : Len(p) > Len(q)

(***************************************************************************)
(* The root table after NewGitTreeWalker                                   *)
(***************************************************************************)

\* Claim C15: after root resolution succeeds, every entry of RootMap holds
\* at least one path, and every stored path is a non-empty string beginning
\* with "/".
C15_EveryRootHasAbsolutePaths ==
  wpc = "ready" =>
    \A k \in DOMAIN walker.RootMap :
      /\ Len(walker.RootMap[k]) >= 1
      /\ \A i \in 1..Len(walker.RootMap[k]) : HasPrefix(walker.RootMap[k][i], Slash)

(***************************************************************************)
(* Invalid input of the path functions                                     *)
(***************************************************************************)

\* Claim C16: every path function (CommonPrefix, TrimToLevel, Roots) that
\* receives a path not starting with "/" fails instead of returning a
\* result, and Roots fails likewise for any level < 1.
C16_InvalidInputFails ==
  /\ (/\ algCall \in {"CommonPrefix", "TrimToLevel", "Roots"}
      /\ \E i \in 1..Len(algPaths) : ~HasPrefix(algPaths[i], Slash))
     => algOut.exit # "none"
  /\ (algCall = "Roots" /\ algLevel < 1) => algOut.exit # "none"

(***************************************************************************)
(* Optimize called again on the same optimizer                             *)
(***************************************************************************)

\* The second call of Optimize on one optimizer has returned
ReturnedAgain == pc = "done" /\ run = 2

\* Claim C17: calling Optimize a second time on the same ZoweeOptimizer with
\* the same arguments returns the same list as the first call; no binding
\* created by the first call influences the second.
C17_SecondCallReturnsTheSameList ==
  ReturnedAgain => (Len(result) = Len(previous) /\ \A i \in 1..Len(result) : result[i] = previous[i])

(***************************************************************************)
(* The names generateVarName returns                                       *)
(***************************************************************************)

\* The final components for which no name is promised
NamelessBases == {<<>>, Dot, Slash}

\* Claim C18: generateVarName returns the empty string exactly when the
\* path's final component is empty, "." or "/"; for every other path it
\* returns a non-empty name matching [A-Za-z_][A-Za-z0-9_]*.
C18_NamelessOnlyForDegeneratePaths ==
  namePc = "returned" =>
    IF Base(namePath) \in NamelessBases THEN nameOut = <<>> ELSE IsIdent(nameOut)

(***************************************************************************)
(* DisplayRoots and the keys of RootMap                                    *)
(***************************************************************************)

\* The keys under which processRootArg stores the paths of one argument
KeysStoredFor(arg) == DOMAIN processRootArg(EmptyMap, arg).RootMap

\* Claim C19: after NewGitTreeWalker succeeds, every entry of DisplayRoots is
\* the display key under which that argument's absolute paths are stored in
\* RootMap, for explicit, implicit and literal root arguments alike.
C19_DisplayRootsAreTheDisplayKeys ==
  wpc = "ready" =>
    /\ Len(walker.DisplayRoots) = Len(ExpandedArgs(args))
    /\ \A i \in 1..Len(walker.DisplayRoots) :
         /\ walker.DisplayRoots[i] \in KeysStoredFor(ExpandedArgs(args)[i])
         /\ walker.DisplayRoots[i] \in DOMAIN walker.RootMap

(***************************************************************************)
(* The substitution of a rendered line                                     *)
(***************************************************************************)

\* The names bound, in the table defined, to a path p with P = p + "/" + ...
BindingsAbove(defined, P) == {n \in DOMAIN defined : HasPrefix(P, defined[n] \o Slash)}

\* value is what the claim prescribes for path P when the bindings are defined
IsBestSubstitution(defined, P, value) ==
  LET above == BindingsAbove(defined, P)
  IN IF above = {} THEN value = P
     ELSE /\ value # P
          /\ \E n \in above :
               /\ \A o \in above : Len(defined[o]) <= Len(defined[n])
               /\ value = <<"$">> \o n \o Slash \o TrimPrefix(P, defined[n] \o Slash)

\* A step that renders a line renders the prescribed VALUE from the bindings
\* defined before the step
RendersBestSubstitution ==
  /\ (pc = "terminal" /\ Len(output') = Len(output) + 1) =>
       IsBestSubstitution(definedVars, paths[next], ValueOf(output'[Len(output')]))
  /\ pc = "intermediate" =>
       \A prefix \in DOMAIN intermediateVars' \ DOMAIN intermediateVars :
         IsBestSubstitution(definedVars, prefix, ValueOf(intermediateVars'[prefix]))

\* Claim C20: the VALUE of every emitted line for path P is $name/suffix where
\* name is the binding with the longest source path p such that P starts with
\* p + "/", among the bindings defined at the moment the line is generated,
\* and suffix is P without p + "/"; VALUE is the literal P if and only if no
\* such binding exists.
C20_BestSubstitution == [][RendersBestSubstitution]_vars

\* A returned list with a line whose path lies beneath the paths of two
\* earlier lines, of different lengths, and a line whose VALUE is its path
C20_Witness ==
  /\ Returned
  /\ \E i, j, k \in 1..Len(result) : \E si, sj, sk \in sourceOf :
       /\ i < k /\ j < k
       /\ si[1] = result[i] /\ sj[1] = result[j] /\ sk[1] = result[k]
       /\ HasPrefix(sk[2], si[2] \o Slash)
       /\ HasPrefix(sk[2], sj[2] \o Slash)
       /\ Len(si[2]) < Len(sj[2])
       /\ ValueOf(result[k]) =
            <<"$">> \o NameOf(result[j]) \o Slash \o TrimPrefix(sk[2], sj[2] \o Slash)
       /\ ValueOf(result[i]) = si[2]

(***************************************************************************)
(* Which prefixes become intermediate variables                            *)
(***************************************************************************)

\* p is a proper prefix of P by "/"-components
IsProperPrefix(p, P) == P # p /\ HasPrefix(P, p \o Slash)

\* The conditions (a) to (e) and the condition on the name, for a candidate
\* prefix and the bindings that exist when it is considered.  An input path
\* that occurs twice in the list is counted twice.
IsEligible(defined, prefix) ==
  /\ Cardinality({i \in 1..Len(paths) : IsProperPrefix(prefix, paths[i])}) >= 2
  /\ \A n \in DOMAIN defined : defined[n] # prefix
  /\ Dir(prefix) \notin Range(paths)
  /\ \A n \in DOMAIN defined :
       ~HasPrefix(prefix, defined[n]) /\ ~HasPrefix(defined[n], prefix)
  /\ prefix \notin Range(paths)
  /\ LET name == generateVarName(defined, prefix)
     IN /\ name # <<>>
        /\ name \in DOMAIN defined => defined[name] = prefix

\* The step that considers a candidate makes it an intermediate variable
\* exactly when it is eligible
DefinesExactlyTheEligible ==
  pc = "intermediate" =>
    \A prefix \in prefixesLeft \ prefixesLeft' :
      (prefix \in DOMAIN intermediateVars') <=> IsEligible(definedVars, prefix)

IsExplicitReference(arg) ==
  \/ Len(arg) >= 2 /\ arg[1] = "$" /\ IsIdent(SubSeq(arg, 2, Len(arg)))
  \/ /\ Len(arg) >= 4
     /\ SubSeq(arg, 1, 2) = <<"'", "$">>
     /\ arg[Len(arg)] = "'"
     /\ IsIdent(SubSeq(arg, 3, Len(arg) - 1))

\* The IDENT of an explicit reference
IdentOf(arg) ==
  IF arg[1] = "$" THEN SubSeq(arg, 2, Len(arg)) ELSE SubSeq(arg, 3, Len(arg) - 1)

\* The display key and the path the three classes prescribe for an argument
Classified(arg) ==
  IF IsExplicitReference(arg)
  THEN [key |-> <<"$">> \o IdentOf(arg), path |-> Getenv(IdentOf(arg))]
  ELSE IF IsIdent(arg) /\ Getenv(arg) # <<>>
       THEN [key |-> <<"$">> \o arg, path |-> Getenv(arg)]
       ELSE [key |-> arg, path |-> arg]

\* Claim C22: root arguments are classified in the order explicit, implicit,
\* literal.  $IDENT and '$IDENT' get the display key $IDENT; a bare
\* identifier whose environment variable is non-empty gets the display key
\* $IDENT and the variable's value as path; a bare identifier that is unset
\* or empty, and any other string, is stored under the literal argument with
\* the argument itself as path, without an error.
C22_ArgumentsAreClassified ==
  /\ wpc = "ready" =>
       \A arg \in Range(ExpandedArgs(args)) :
         /\ Classified(arg).key \in DOMAIN walker.RootMap
         /\ walker.RootMap[Classified(arg).key] = AbsPaths(Classified(arg).path)
  /\ wpc = "failed" =>
       \E arg \in Range(ExpandedArgs(args)) : IsExplicitReference(arg)

\* A walker built from an explicit reference and from a bare identifier that
\* the environment does not define
C22_Witness ==
  /\ wpc = "ready"
  /\ \E arg \in Range(ExpandedArgs(args)) : IsExplicitReference(arg)
  /\ \E arg \in Range(ExpandedArgs(args)) : IsIdent(arg) /\ Getenv(arg) = <<>>

(***************************************************************************)
(* What AbbreviatePath returns                                             *)
(***************************************************************************)

\* The (display key, path) pairs of the walker's table
RootPairs ==
  UNION {{<<k, walker.RootMap[k][i]>> : i \in 1..Len(walker.RootMap[k])} :
           k \in DOMAIN walker.RootMap}

\* The pairs whose path is dir or a directory above dir
PairsAbove(dir) ==
  {m \in RootPairs : dir = m[2] \/ HasPrefix(dir, m[2] \o Slash)}

AbbreviatePathCalled == wpc = "ready" /\ abbrevDir # <<>>

\* Claim C23: AbbreviatePath(dir) considers every (display key, path) pair
\* with dir = path or dir starting with path + "/", picks the pair with the
\* longest path and returns the display key followed by the remainder of dir
\* after that path; if no pair matches, also when a root path is a string
\* prefix of dir but not a directory prefix, it returns dir unchanged.
C23_LongestPairOrUnchanged ==
  AbbreviatePathCalled =>
    IF PairsAbove(abbrevDir) = {} THEN abbrevOut = abbrevDir
    ELSE \E m \in PairsAbove(abbrevDir) :
           /\ \A o \in PairsAbove(abbrevDir) : Len(o[2]) <= Len(m[2])
           /\ abbrevOut = m[1] \o SubSeq(abbrevDir, Len(m[2]) + 1, Len(abbrevDir))

\* A call for a directory beneath two root paths of different lengths, that
\* returned something else than the directory
C23_Witness ==
  /\ AbbreviatePathCalled
  /\ abbrevOut # abbrevDir
  /\ \E m, o \in PairsAbove(abbrevDir) :
       /\ Len(o[2]) < Len(m[2])
       /\ Len(m[2]) < Len(abbrevDir)
       /\ abbrevOut = m[1] \o SubSeq(abbrevDir, Len(m[2]) + 1, Len(abbrevDir))

(***************************************************************************)
(* Roots of several paths                                                  *)
(***************************************************************************)

\* The non-empty components of a path
Components(path) == DropEmpty(Split(path, "/"))

\* r is a prefix of p, component by component
IsComponentPrefix(r, p) ==
  /\ Len(Components(r)) <= Len(Components(p))
  /\ SubSeq(Components(p), 1, Len(Components(r))) = Components(r)

\* The levels k <= level at which TrimToLevel leaves one element
CollapsingLevels(ps, level) == {k \in 1..level : Len(TrimToLevel(ps, k)) = 1}

\* The first component of a path, if it has one
FirstComponent(path) ==
  IF Components(path) = <<>> THEN <<>> ELSE <<Components(path)[1]>>

\* Two of the paths differ in their first component, or only one has any
DifferInFirstComponent(ps) ==
  \E i, j \in 1..Len(ps) : FirstComponent(ps[i]) # FirstComponent(ps[j])

RootsOfSeveralCalled ==
  /\ algCall = "Roots"
  /\ Len(algPaths) >= 2
  /\ algLevel >= 1
  /\ \A i \in 1..Len(algPaths) : HasPrefix(algPaths[i], Slash)

OnlyLeadingSlashCommon(ps) ==
  \/ Len(ps) = 1 /\ Len(Components(ps[1])) <= 1
  \/ Len(ps) >= 2 /\ DifferInFirstComponent(ps)

\* Claim C25: CommonPrefix and Roots return "/" only when allowRootMatch is
\* true.  With allowRootMatch false, for every list of absolute paths (empty,
\* single or multiple, lists containing "/" itself or repeated paths
\* included) the result is never "/", and it is "" whenever only the leading
\* slash is common.
C25_RootOnlyWhenAllowed ==
  (/\ algCall \in {"CommonPrefix", "Roots"}
   /\ algCall = "Roots" => algLevel >= 1
   /\ ~algAllow
   /\ \A i \in 1..Len(algPaths) : HasPrefix(algPaths[i], Slash))
  => /\ algOut.exit = "none"
     /\ algOut.value # Slash
     /\ OnlyLeadingSlashCommon(algPaths) => algOut.value = <<>>

(***************************************************************************)
(* Termination of the calls on a pool                                      *)
(***************************************************************************)

\* The caller is inside AddTask, Shutdown or WaitForCompletion
InsideACall ==
  mainPc \in {"AddTask", "Shutdown", "WaitForCompletion:Shutdown", "WaitForCompletion:Wait"}

\* The call the caller was in has returned
BackFromTheCall == mainPc \in {"caller", "returned"}

\* Claim C26: after Start, any sequence of AddTask calls followed by
\* WaitForCompletion, also when an explicit Shutdown is called first,
\* terminates: every worker receives a shutdown signal and exits, no sender
\* blocks forever on the bounded work queue, and WaitForCompletion returns;
\* Shutdown and WaitForCompletion on a pool that was never started return.
C26_EveryCallReturns ==
  /\ InsideACall ~> BackFromTheCall
  /\ [](mainPc = "returned" => \A w \in DOMAIN workers : workers[w].pc = "exited")

\* A nil was passed to AddTask, or AddTask was called after Shutdown
SignalledBeforeATask ==
  \/ \E i \in 1..Len(added) : added[i] = NilTask
  \/ mainPc = "AddTask" /\ shutdownCalled
  \/ \E i, j \in 1..Len(sent) : i < j /\ sent[i] = NilTask /\ sent[j] # NilTask

\* Claim C26, amended: on a pool whose queue has room for workerCount
\* signals, as long as no nil is passed to AddTask and AddTask is not called
\* after Shutdown, every call of AddTask, Shutdown and WaitForCompletion
\* returns, and when WaitForCompletion returns every worker has received a
\* shutdown signal and exited.
C26_EveryCallReturnsUnlessSignalledBeforeATask ==
  /\ (InsideACall /\ ~SignalledBeforeATask /\ workerCount <= QueueCapacity)
       ~> BackFromTheCall
  /\ [](mainPc = "returned" => \A w \in DOMAIN workers : workers[w].pc = "exited")

\* WaitForCompletion has returned after an explicit Shutdown, on a pool of two
\* workers that was given tasks and no nil
C26_Witness ==
  /\ started /\ mainPc = "returned"
  /\ workerCount = 2
  /\ ~SignalledBeforeATask
  /\ Cardinality(TasksAdded) >= 2
  /\ Cardinality({i \in 1..Len(sent) : sent[i] = NilTask}) = 2 * workerCount

(***************************************************************************)
(* The returned lines as shell assignments                                 *)
(***************************************************************************)

\* The environment before the first line: every seeded root variable holds
\* the first path of its root
SeedEnvironment ==
  [n \in SeededNames(initialVars) |->
     initialVars[CHOOSE k \in SeedKeys(initialVars) : SeedName(k) = n][1]]

\* The name a shell reads after the "$" of a value: the longest run of word
\* characters
ReferencedName(value) ==
  LET stops == {i \in 2..Len(value) : ~IsWordChar(value[i])}
      stop == IF stops = {} THEN Len(value) + 1
              ELSE CHOOSE i \in stops : \A j \in stops : i <= j
  IN SubSeq(value, 2, stop - 1)

\* What a shell assigns for VALUE in the environment environ: a reference
\* at its start is replaced by the variable's value, "" when it is unset; a
\* "$" that no name follows stands for itself
Expand(value, environ) ==
  IF Len(value) > 0 /\ value[1] = "$" /\ ReferencedName(value) # <<>>
  THEN LET name == ReferencedName(value)
       IN (IF name \in DOMAIN environ THEN environ[name] ELSE <<>>)
            \o SubSeq(value, Len(name) + 2, Len(value))
  ELSE value

\* The environment after the first k returned lines were evaluated in order
RECURSIVE EnvironmentAfter(_)
EnvironmentAfter(k) ==
  IF k = 0 THEN SeedEnvironment
  ELSE LET before == EnvironmentAfter(k - 1)
       IN Put(before, NameOf(result[k]), Expand(ValueOf(result[k]), before))

\* Claim C27: if the returned lines are evaluated in order as shell
\* assignments, starting from an environment in which each seeded root
\* variable holds its first absolute path, every line assigns to its NAME
\* exactly the source path the line was generated for.
C27_ExpansionIsSound ==
  Returned =>
    \A i \in 1..Len(result) : \A s \in sourceOf :
      s[1] = result[i] =>
        Expand(ValueOf(result[i]), EnvironmentAfter(i - 1)) = s[2]

(***************************************************************************)
(* The VALUE of intermediate lines                                         *)
(***************************************************************************)

\* The lines of the returned list rendered for intermediate variables, with
\* the prefixes they were rendered for
IntermediateSources == {s \in sourceOf : s[3] = "intermediate" /\ s[1] \in Range(result)}

C29_RepetitionsChangeNothing ==
  (pc = "done" /\ run = 2) =>
    /\ Len(previous) = Len(result)
    /\ Range(previous) = Range(result)
    /\ previous = result

(***************************************************************************)
(* RootMap across FindAndProcessRepos                                      *)
(***************************************************************************)

\* RootMap as NewGitTreeWalker resolved it from the arguments
ResolvedRootMap == NewGitTreeWalker(args, walker.Serial).walker.RootMap

\* Claim C30: FindAndProcessRepos leaves the root table unchanged: after it
\* returns, RootMap has the same keys and every key maps to the same paths in
\* the same order as before, so the first path of each root is still the
\* first path that was resolved for that root.
C30_FindLeavesRootMapUnchanged ==
  findPc = "done" =>
    /\ DOMAIN walker.RootMap = DOMAIN ResolvedRootMap
    /\ \A k \in DOMAIN walker.RootMap : walker.RootMap[k] = ResolvedRootMap[k]

====
